---- MODULE Spec2Model ----
(***************************************************************************)
(* SketchUpNET::SketchUp (src/SketchUpNET/SketchUpNET.cpp): LoadModel with *)
(* its reference resolution (FixRefs) and group material inheritance       *)
(* (FixMaterialRefs), and the save operations SaveAs, AppendToModel and    *)
(* WriteNewModel with their use of the native SketchUp library session.    *)
(***************************************************************************)
EXTENDS Integers, Sequences, FiniteSets, TLC

\* ------------------------------------------------------------------ bounds
NumComps == 3
NumGroups == 2
MaxInstances == 2
MaxSurfaces == 1
MaxCalls == 3

\* --------------------------------------------------------------- the data
\* Instance.Parent before resolution; also the identifier of no definition.
Null == 0

\* Material names; String::Empty is the "no material" name.
Unset == ""
GroupMaterials == {Unset, "M1", "M2"}

Comps == 1..NumComps
GroupIds == 1..NumGroups

ModelOwner == [kind |-> "model", id |-> 0]
CompOwner(c) == [kind |-> "comp", id |-> c]
GroupOwner(g) == [kind |-> "group", id |-> g]

\* The status SUModelCreateFromFileWithStatus reports.
LoadStatus == {"Success", "MoreRecent", "Failure"}

\* ------------------------------------------------------ files to be loaded
NumOwners == 1 + NumComps + NumGroups

OwnerOfIndex(k) ==
    IF k = 0 THEN ModelOwner
    ELSE IF k <= NumComps THEN CompOwner(k)
    ELSE GroupOwner(k - NumComps)

RECURSIVE SortedSeqs(_, _, _)
SortedSeqs(n, lo, hi) ==
    IF n = 0 THEN {<<>>}
    ELSE {<<>>} \cup
         UNION {{<<c>> \o s : s \in SortedSeqs(n - 1, c, hi)} : c \in lo..hi}

InstanceOfCode(code) ==
    [owner |-> OwnerOfIndex(code \div (NumComps + 1)),
     pid |-> code % (NumComps + 1),
     mat |-> Unset]

MaterialOfBit(b) == IF b = 0 THEN Unset ELSE "M2"

\* A surface of a group, with each of its two slots set or not.
SurfaceOfCode(code) ==
    [owner |-> GroupOwner((code \div 4) + 1),
     front |-> MaterialOfBit((code \div 2) % 2),
     back |-> MaterialOfBit(code % 2)]

\* A surface of the model and one of definition 1, in every file that has
\* surfaces: front unset, back set.
OtherSurfaces ==
    <<[owner |-> ModelOwner, front |-> Unset, back |-> "M2"],
      [owner |-> CompOwner(1), front |-> Unset, back |-> "M2"]>>

\* A group is nested in a group read before it, or is top-level (0).
TreeShapes == {p \in [GroupIds -> 0..NumGroups] : \A g \in GroupIds : p[g] < g}

\* Group 1 at top level, each other group nested in the one before it.
ChainShape == [g \in GroupIds |-> g - 1]

\* Files that vary the instances placed in the model, in the definitions
\* and in the groups; no group has a material.
RefFiles ==
    {[ncomps |-> NumComps,
      gparent |-> ChainShape,
      gmat |-> [g \in GroupIds |-> Unset],
      insts |-> [i \in 1..Len(s) |-> InstanceOfCode(s[i])],
      surfs |-> <<>>] :
        s \in SortedSeqs(MaxInstances, 0, NumOwners * (NumComps + 1) - 1)}

\* Files that vary the nesting of the groups, their materials and their
\* surfaces; one definition, placed once, without a material, in group 1.
MatFiles ==
    {[ncomps |-> 1,
      gparent |-> p,
      gmat |-> m,
      insts |-> <<[owner |-> GroupOwner(1), pid |-> 1, mat |-> Unset]>>,
      surfs |-> OtherSurfaces \o [i \in 1..Len(s) |-> SurfaceOfCode(s[i])]] :
        p \in TreeShapes,
        m \in [GroupIds -> GroupMaterials],
        s \in SortedSeqs(MaxSurfaces, 0, NumGroups * 4 - 1)}

\* The file the save operations and repeated loads work on.
SampleFile ==
    [ncomps |-> NumComps,
     gparent |-> [g \in GroupIds |-> g - 1],
     gmat |-> [g \in GroupIds |-> IF g = 1 THEN "M1" ELSE Unset],
     insts |-> <<[owner |-> ModelOwner, pid |-> 1, mat |-> Unset],
                 [owner |-> CompOwner(1), pid |-> 2, mat |-> Unset],
                 [owner |-> GroupOwner(1), pid |-> 0, mat |-> Unset]>>,
     surfs |-> <<[owner |-> GroupOwner(NumGroups), front |-> Unset, back |-> "M2"]>>]

VARIABLES
    file,                   \* the model file on disk
    Components,             \* Dictionary<String, Component>: Guid -> definition
    Groups,                 \* every group read: group -> enclosing group, 0 at top level
    GMat,                   \* Group.Material (by name)
    Insts,                  \* every Instance read: owner, ParentID, material
    Parent,                 \* Instance.Parent
    Surfs,                  \* every Surface read: owner, FrontMaterial, BackMaterial
    MoreRecentFileVersion,
    listsSet,               \* Surfaces, Edges, Curves are not null
    pc,                     \* where the running operation is
    mode,                   \* "load", or the pass run on its own
    inherit,                \* inheritGroupMaterials of the running load
    idx,                    \* position of the for-each in progress
    stack,                  \* the FixRefs calls in progress
    expanded,               \* per definition: FixRefs(Component) calls in this pass
    pre,                    \* links and materials when the pass in progress began
    runs,                   \* passes completed on the loaded graph
    sessions,               \* SUInitialize calls not yet matched by SUTerminate
    handles,                \* models created and not yet released
    ret,                    \* outcome of the last operation
    lastOp, lastStatus, libFailed, calls

vars == <<file, Components, Groups, GMat, Insts, Parent, Surfs,
          MoreRecentFileVersion, listsSet, pc, mode, inherit, idx, stack,
          expanded, pre, runs, sessions, handles, ret, lastOp, lastStatus,
          libFailed, calls>>

graph == <<Components, Groups, GMat, Insts, Parent, Surfs>>
native == <<sessions, handles>>
outcome == <<ret, lastOp, lastStatus, libFailed, calls>>

InitWith(f, inh) ==
    /\ file = f
    /\ Components = <<>>
    /\ Groups = <<>>
    /\ GMat = <<>>
    /\ Insts = <<>>
    /\ Parent = <<>>
    /\ Surfs = <<>>
    /\ MoreRecentFileVersion = FALSE
    /\ listsSet = FALSE
    /\ pc = "idle"
    /\ mode = "none"
    /\ inherit = inh
    /\ idx = 1
    /\ stack = <<>>
    /\ expanded = [c \in Comps |-> 0]
    /\ pre = [parent |-> <<>>, gmat |-> <<>>, surfs |-> <<>>]
    /\ runs = [resolver |-> 0, propagator |-> 0]
    /\ sessions = 0
    /\ handles = 0
    /\ ret = "none"
    /\ lastOp = "none"
    /\ lastStatus = "none"
    /\ libFailed = FALSE
    /\ calls = 0

\* The file to load and the inheritGroupMaterials the caller will pass.
Init ==
    \/ \E f \in RefFiles : InitWith(f, FALSE)
    \/ \E f \in MatFiles, inh \in BOOLEAN : InitWith(f, inh)

InitIO == InitWith(SampleFile, FALSE)

\* ------------------------------------------------------------- the graph
ContainsKey(k) == k \in DOMAIN Components

Indices(n) == [i \in 1..n |-> i]

\* owner->Instances, as positions in Insts, in list order.
InstancesOf(owner) ==
    SelectSeq(Indices(Len(Insts)), LAMBDA i : Insts[i].owner = owner)

\* The model's Groups list.
TopGroups ==
    SelectSeq(Indices(NumGroups), LAMBDA g : g \in DOMAIN Groups /\ Groups[g] = 0)

\* grp->Groups.
ChildGroups(grp) ==
    SelectSeq(Indices(NumGroups), LAMBDA g : g \in DOMAIN Groups /\ Groups[g] = grp)

FrameOwner(fr) == IF fr.kind = "comp" THEN CompOwner(fr.id) ELSE GroupOwner(fr.id)

\* The managed stack holds the frames of any nesting without a repeated
\* definition (at most NumComps definitions below one group); a deeper
\* recursion has re-entered a definition and never returns.
StackLimit == NumComps + 1

Snapshot(par, gm, sf) == [parent |-> par, gmat |-> gm, surfs |-> sf]

\* ------------------------------------------------- material inheritance
\* if (x->Material->Name == String::Empty) x->Material = parentMaterial;
InheritSlot_Overwrite(slot, parentMaterial) == parentMaterial

InheritSlot(slot, parentMaterial) ==
    IF slot = Unset THEN parentMaterial ELSE slot

\* Material^ parentMaterial = grp->Material;
ParentMaterial_Stale(grp, gm) == pre.gmat[grp]

ParentMaterial(grp, gm) == gm[grp]

\* for each (Surface^ s in grp->Surfaces)
OwnedBy(s, grp) == s.owner = GroupOwner(grp)

FixSurface(s, grp, parentMaterial) ==
    IF OwnedBy(s, grp)
    THEN [s EXCEPT !.front = InheritSlot(s.front, parentMaterial),
                   !.back = InheritSlot(s.back, parentMaterial)]
    ELSE s

RECURSIVE FixMaterialRefs(_, _)

\* if (g->Material->Name == String::Empty) g->Material = parentMaterial;
\* FixMaterialRefs(g);
FixChildGroup_RecurseFirst(g, s, parentMaterial) ==
    LET r == FixMaterialRefs(g, s)
    IN [r EXCEPT !.gmat[g] = InheritSlot(r.gmat[g], parentMaterial)]

FixChildGroup(g, s, parentMaterial) ==
    FixMaterialRefs(g, [s EXCEPT !.gmat[g] = InheritSlot(s.gmat[g], parentMaterial)])

FixMaterialRefs(grp, st) ==
    LET parentMaterial == ParentMaterial(grp, st.gmat)
        kids == ChildGroups(grp)
        RECURSIVE EachGroup(_, _)
        EachGroup(k, s) ==
            IF k > Len(kids) THEN s
            ELSE EachGroup(k + 1, FixChildGroup(kids[k], s, parentMaterial))
        afterGroups == EachGroup(1, st)
    IN [afterGroups EXCEPT
          !.surfs = [i \in DOMAIN afterGroups.surfs |->
                        FixSurface(afterGroups.surfs[i], grp, parentMaterial)]]

\* if (inheritGroupMaterials) { FixMaterialRefs(var); }
ShouldInherit_Always(m, inh) == TRUE

ShouldInherit(m, inh) == m = "load" /\ inh

\* ------------------------------------------------------------ LoadModel
NewerFlag_Sticky(status) == MoreRecentFileVersion \/ status = "MoreRecent"

\* if (status == SUModelLoadStatus_Success_MoreRecent) ... else ...
NewerFlag(status) == status = "MoreRecent"

\* What the extraction reads: nothing from a model that failed to load.
Extracted(status) ==
    IF status = "Failure"
    THEN [gparent |-> <<>>, gmat |-> <<>>, insts |-> <<>>, surfs |-> <<>>,
          comps |-> <<>>]
    ELSE [gparent |-> file.gparent, gmat |-> file.gmat, insts |-> file.insts,
          surfs |-> file.surfs, comps |-> [c \in 1..file.ncomps |-> c]]

\* Every Instance is read with its Parent unresolved.
Unresolved(insts) == [i \in DOMAIN insts |-> Null]

\* for each (Instance^ var in Instances) ... var->Parent = Components[var->ParentID]
TopLevelParents(insts, comps) ==
    [i \in DOMAIN insts |->
        IF insts[i].owner = ModelOwner /\ insts[i].pid \in DOMAIN comps
        THEN comps[insts[i].pid] ELSE Unresolved(insts)[i]]

LoadModel(status, inh) ==
    /\ pc = "idle"
    /\ LET x == Extracted(status)
           par == TopLevelParents(x.insts, x.comps)
       IN /\ Components' = x.comps
          /\ Groups' = x.gparent
          /\ GMat' = x.gmat
          /\ Insts' = x.insts
          /\ Surfs' = x.surfs
          /\ Parent' = par
          /\ pre' = Snapshot(Unresolved(x.insts), x.gmat, x.surfs)
    /\ MoreRecentFileVersion' = NewerFlag(status)
    /\ listsSet' = TRUE
    /\ sessions' = sessions + 1
    /\ handles' = IF status = "Failure" THEN handles ELSE handles + 1
    /\ pc' = "comps"
    /\ mode' = "load"
    /\ inherit' = inh
    /\ idx' = 1
    /\ stack' = <<>>
    /\ expanded' = [c \in Comps |-> 0]
    /\ runs' = [resolver |-> 0, propagator |-> 0]
    /\ ret' = "running"
    /\ lastOp' = "LoadModel"
    /\ lastStatus' = status
    /\ libFailed' = (status = "Failure")
    /\ calls' = calls + 1
    /\ UNCHANGED file

\* return LoadModel(filename, false, false);
LoadModel_Filename(status) == LoadModel(status, FALSE)

\* return LoadModel(filename, includeMeshes, false);
LoadModel_IncludeMeshes(status) == LoadModel(status, FALSE)

\* for each (KeyValuePair<String^, Component^>^ cmp in Components) FixRefs(cmp->Value);
ComponentLoop_FixRefs ==
    /\ pc = "comps"
    /\ idx \in DOMAIN Components
    /\ stack' = <<[kind |-> "comp", id |-> Components[idx], i |-> 1]>>
    /\ expanded' = [expanded EXCEPT ![Components[idx]] = @ + 1]
    /\ idx' = idx + 1
    /\ pc' = "fix"
    /\ UNCHANGED <<file, graph, MoreRecentFileVersion, listsSet, mode, inherit,
                   pre, runs, native, outcome>>

ComponentLoop_Done ==
    /\ pc = "comps"
    /\ idx \notin DOMAIN Components
    /\ idx' = 1
    /\ pc' = "groups"
    /\ UNCHANGED <<file, graph, MoreRecentFileVersion, listsSet, mode, inherit,
                   stack, expanded, pre, runs, native, outcome>>

\* ---------------------------------------- FixRefs(Component^) / FixRefs(Group^)
Top == stack[Len(stack)]

TopInstances == InstancesOf(FrameOwner(Top))

Advance == [stack EXCEPT ![Len(stack)].i = @ + 1]

\* if (Components->ContainsKey(var->ParentID)) { var->Parent = ...; FixRefs(...); }
FixRefs_Resolve ==
    /\ pc = "fix"
    /\ Top.i <= Len(TopInstances)
    /\ LET var == TopInstances[Top.i]
       IN /\ ContainsKey(Insts[var].pid)
          /\ Len(stack) < StackLimit
          /\ Parent' = [Parent EXCEPT ![var] = Components[Insts[var].pid]]
          /\ stack' = Append(Advance,
                             [kind |-> "comp", id |-> Components[Insts[var].pid], i |-> 1])
          /\ expanded' = [expanded EXCEPT ![Components[Insts[var].pid]] = @ + 1]
    /\ UNCHANGED <<file, Components, Groups, GMat, Insts, Surfs,
                   MoreRecentFileVersion, listsSet, pc, mode, inherit, idx, pre,
                   runs, native, outcome>>

\* The same call with the stack exhausted: StackOverflowException ends the process.
FixRefs_Overflow ==
    /\ pc = "fix"
    /\ Top.i <= Len(TopInstances)
    /\ LET var == TopInstances[Top.i]
       IN /\ ContainsKey(Insts[var].pid)
          /\ Len(stack) >= StackLimit
          /\ Parent' = [Parent EXCEPT ![var] = Components[Insts[var].pid]]
    /\ pc' = "crashed"
    /\ ret' = "crashed"
    /\ UNCHANGED <<file, Components, Groups, GMat, Insts, Surfs,
                   MoreRecentFileVersion, listsSet, mode, inherit, idx, stack,
                   expanded, pre, runs, native, lastOp, lastStatus, libFailed, calls>>

\* ParentID names no definition: the instance is left as it is.
FixRefs_Skip ==
    /\ pc = "fix"
    /\ Top.i <= Len(TopInstances)
    /\ ~ContainsKey(Insts[TopInstances[Top.i]].pid)
    /\ stack' = Advance
    /\ UNCHANGED <<file, graph, MoreRecentFileVersion, listsSet, pc, mode, inherit,
                   idx, expanded, pre, runs, native, outcome>>

\* The for-each is over: return to the caller.
FixRefs_Return ==
    /\ pc = "fix"
    /\ Top.i > Len(TopInstances)
    /\ stack' = SubSeq(stack, 1, Len(stack) - 1)
    /\ pc' = IF Len(stack) > 1 THEN "fix"
             ELSE IF Top.kind = "comp" THEN "comps" ELSE "mat"
    /\ UNCHANGED <<file, graph, MoreRecentFileVersion, listsSet, mode, inherit,
                   idx, expanded, pre, runs, native, outcome>>

\* --------------------------------------------- for each (Group^ var in Groups)
GroupLoop_FixRefs ==
    /\ pc = "groups"
    /\ mode \in {"load", "resolve"}
    /\ idx <= Len(TopGroups)
    /\ stack' = <<[kind |-> "group", id |-> TopGroups[idx], i |-> 1]>>
    /\ pc' = "fix"
    /\ UNCHANGED <<file, graph, MoreRecentFileVersion, listsSet, mode, inherit,
                   idx, expanded, pre, runs, native, outcome>>

ApplyFixMaterialRefs(grp) ==
    LET st == FixMaterialRefs(grp, [gmat |-> GMat, surfs |-> Surfs])
    IN /\ GMat' = st.gmat
       /\ Surfs' = st.surfs

GroupLoop_FixMaterialRefs ==
    /\ pc = "mat"
    /\ ShouldInherit(mode, inherit)
    /\ ApplyFixMaterialRefs(TopGroups[idx])
    /\ idx' = idx + 1
    /\ pc' = "groups"
    /\ UNCHANGED <<file, Components, Groups, Insts, Parent,
                   MoreRecentFileVersion, listsSet, mode, inherit, stack,
                   expanded, pre, runs, native, outcome>>

GroupLoop_NoInherit ==
    /\ pc = "mat"
    /\ ~ShouldInherit(mode, inherit)
    /\ idx' = idx + 1
    /\ pc' = "groups"
    /\ UNCHANGED <<file, graph, MoreRecentFileVersion, listsSet, mode, inherit,
                   stack, expanded, pre, runs, native, outcome>>

\* SUModelRelease(&model); SUTerminate(); return true;
LoadModel_Return ==
    /\ pc = "groups"
    /\ mode = "load"
    /\ idx > Len(TopGroups)
    /\ handles' = IF lastStatus = "Failure" THEN handles ELSE handles - 1
    /\ sessions' = sessions - 1
    /\ ret' = "true"
    /\ runs' = [resolver |-> 1, propagator |-> IF inherit THEN 1 ELSE 0]
    /\ pc' = "idle"
    /\ UNCHANGED <<file, graph, MoreRecentFileVersion, listsSet, mode, inherit,
                   idx, stack, expanded, pre, lastOp, lastStatus, libFailed, calls>>

\* ------------------------------------- the two passes, run again on their own
Loaded == pc = "idle" /\ lastOp = "LoadModel" /\ ret = "true"

\* FixRefs over every entry of Components and every top-level Group.
RunResolver ==
    /\ Loaded
    /\ mode = "load"
    /\ mode' = "resolve"
    /\ pc' = "comps"
    /\ idx' = 1
    /\ expanded' = [c \in Comps |-> 0]
    /\ pre' = Snapshot(Parent, GMat, Surfs)
    /\ UNCHANGED <<file, graph, MoreRecentFileVersion, listsSet, inherit, stack,
                   runs, native, outcome>>

\* FixMaterialRefs over every top-level Group.
RunPropagator ==
    /\ Loaded
    /\ runs.propagator < 2
    /\ mode' = "propagate"
    /\ pc' = "groups"
    /\ idx' = 1
    /\ expanded' = [c \in Comps |-> 0]
    /\ pre' = Snapshot(Parent, GMat, Surfs)
    /\ UNCHANGED <<file, graph, MoreRecentFileVersion, listsSet, inherit, stack,
                   runs, native, outcome>>

Propagator_FixMaterialRefs ==
    /\ pc = "groups"
    /\ mode = "propagate"
    /\ idx <= Len(TopGroups)
    /\ ApplyFixMaterialRefs(TopGroups[idx])
    /\ idx' = idx + 1
    /\ UNCHANGED <<file, Components, Groups, Insts, Parent,
                   MoreRecentFileVersion, listsSet, pc, mode, inherit, stack,
                   expanded, pre, runs, native, outcome>>

Pass_Return ==
    /\ pc = "groups"
    /\ mode \in {"resolve", "propagate"}
    /\ idx > Len(TopGroups)
    /\ runs' = IF mode = "resolve"
               THEN [runs EXCEPT !.resolver = @ + 1]
               ELSE [runs EXCEPT !.propagator = @ + 1]
    /\ pc' = "idle"
    /\ UNCHANGED <<file, graph, MoreRecentFileVersion, listsSet, mode, inherit,
                   idx, stack, expanded, pre, native, outcome>>

\* ------------------------------------------------------ the save operations
\* The caller assigns the public Surfaces, Edges and Curves lists.
AssignGeometry ==
    /\ pc = "idle"
    /\ ~listsSet
    /\ listsSet' = TRUE
    /\ UNCHANGED <<file, graph, MoreRecentFileVersion, pc, mode, inherit, idx,
                   stack, expanded, pre, runs, native, outcome>>

Finished(op, status, result, failed) ==
    /\ ret' = result
    /\ lastOp' = op
    /\ lastStatus' = status
    /\ libFailed' = failed
    /\ calls' = calls + 1
    /\ mode' = "none"
    /\ UNCHANGED <<file, graph, listsSet, pc, inherit, idx, stack, expanded,
                   pre, runs>>

\* SUInitialize ... SUModelCreateFromFileWithStatus ... SUModelSaveToFileWithVersion
\* ... SUModelRelease ... SUTerminate ... return true
SaveAs(status, saved) ==
    /\ pc = "idle"
    /\ calls < MaxCalls
    /\ MoreRecentFileVersion' = NewerFlag(status)
    /\ sessions' = (sessions + 1) - 1
    /\ handles' = handles
    /\ Finished("SaveAs", status, "true", status = "Failure" \/ ~saved)

\* Surfaces->Count on a null list throws after the model was created.
AppendToModel(status, saved) ==
    /\ pc = "idle"
    /\ calls < MaxCalls
    /\ MoreRecentFileVersion' = NewerFlag(status)
    /\ IF listsSet
       THEN /\ sessions' = (sessions + 1) - 1
            /\ handles' = handles
            /\ Finished("AppendToModel", status, "true", status = "Failure" \/ ~saved)
       ELSE /\ sessions' = sessions + 1
            /\ handles' = IF status = "Failure" THEN handles ELSE handles + 1
            /\ Finished("AppendToModel", status, "threw", status = "Failure")

\* if (res != SU_ERROR_NONE) return false;
WriteNewModel(created, saved) ==
    /\ pc = "idle"
    /\ calls < MaxCalls
    /\ UNCHANGED MoreRecentFileVersion
    /\ IF ~created
       THEN /\ sessions' = sessions + 1
            /\ handles' = handles
            /\ Finished("WriteNewModel", "none", "false", TRUE)
       ELSE IF ~listsSet
       THEN /\ sessions' = sessions + 1
            /\ handles' = handles + 1
            /\ Finished("WriteNewModel", "none", "threw", FALSE)
       ELSE /\ sessions' = (sessions + 1) - 1
            /\ handles' = (handles + 1) - 1
            /\ Finished("WriteNewModel", "none", "true", ~saved)

\* ------------------------------------------------------- the specifications
LoadModel_Steps ==
    \/ ComponentLoop_FixRefs
    \/ ComponentLoop_Done
    \/ FixRefs_Resolve
    \/ FixRefs_Skip
    \/ FixRefs_Return
    \/ GroupLoop_FixRefs
    \/ GroupLoop_FixMaterialRefs
    \/ GroupLoop_NoInherit
    \/ LoadModel_Return

\* One load of the file, then the passes again on the loaded graph.
LoadFile == calls = 0 /\ LoadModel("Success", inherit)

Next ==
    \/ LoadFile
    \/ LoadModel_Steps
    \/ FixRefs_Overflow
    \/ RunResolver
    \/ RunPropagator
    \/ Propagator_FixMaterialRefs
    \/ Pass_Return

Spec == Init /\ [][Next]_vars

\* Any sequence of the public operations, with every outcome of the library.
CallLoadModel ==
    /\ calls < MaxCalls
    /\ \E st \in LoadStatus :
         \/ LoadModel_Filename(st)
         \/ LoadModel_IncludeMeshes(st)
         \/ \E inh \in BOOLEAN : LoadModel(st, inh)

CallSaveAs == \E st \in LoadStatus, saved \in BOOLEAN : SaveAs(st, saved)

CallAppendToModel == \E st \in LoadStatus, saved \in BOOLEAN : AppendToModel(st, saved)

CallWriteNewModel == \E created \in BOOLEAN, saved \in BOOLEAN : WriteNewModel(created, saved)

NextIO ==
    \/ CallLoadModel
    \/ LoadModel_Steps
    \/ AssignGeometry
    \/ CallSaveAs
    \/ CallAppendToModel
    \/ CallWriteNewModel

SpecIO == InitIO /\ [][NextIO]_vars

\* ------------------------------------------------------------- the claims
PidOf(i) == Insts[i].pid

PropagationDone ==
    pc = "idle" /\ ((mode = "load" /\ inherit /\ ret = "true") \/ mode = "propagate")

\* The material of the nearest group, from g upwards, that had one when the
\* pass began; Unset when none had.
RECURSIVE Nearest(_)
Nearest(g) ==
    IF g = 0 THEN Unset
    ELSE IF pre.gmat[g] # Unset THEN pre.gmat[g]
    ELSE Nearest(Groups[g])

RECURSIVE Chain(_)
Chain(g) == IF g = 0 THEN {} ELSE {g} \cup Chain(Groups[g])

GroupSurfaces == {i \in DOMAIN Surfs : Surfs[i].owner.kind = "group"}
NestedGroups == {g \in DOMAIN Groups : Groups[g] # 0}

\* C1: the resolution pass terminates on every definition graph, cyclic ones
\* included (it never exhausts the stack), and once it is over every instance
\* placed in a definition and naming a known definition has a non-null Parent.
C1_CycleSafeResolution ==
    /\ pc # "crashed"
    /\ Loaded =>
         \A i \in DOMAIN Insts :
            (Insts[i].owner.kind = "comp" /\ ContainsKey(PidOf(i))) => Parent[i] # Null

\* C2: when LoadModel is over, every instance of the model's Instances list,
\* of every definition and of every group has Parent = Components[ParentID]
\* when ParentID is a key of Components, and a null Parent otherwise.
C2_EveryInstanceResolved ==
    (Loaded /\ mode = "load") =>
        \A i \in DOMAIN Insts :
            Parent[i] = IF ContainsKey(PidOf(i)) THEN Components[PidOf(i)] ELSE Null

\* C3: in a resolution pass that has run to its end, the instance list of
\* each definition was expanded (FixRefs was entered for it) at most once.
C3_ExpandedAtMostOnce ==
    (pc = "idle" /\ mode \in {"load", "resolve"}) =>
        \A c \in Comps : expanded[c] <= 1

\* C4: a group or surface material slot that is set when a pass begins holds
\* the same material from then on; front and back are judged on their own.
C4_ExplicitNeverOverwritten ==
    /\ \A g \in DOMAIN GMat : pre.gmat[g] # Unset => GMat[g] = pre.gmat[g]
    /\ \A i \in DOMAIN Surfs :
         /\ pre.surfs[i].front # Unset => Surfs[i].front = pre.surfs[i].front
         /\ pre.surfs[i].back # Unset => Surfs[i].back = pre.surfs[i].back

\* G (M1) holds G2 (unset) holds S (front unset, back M2): after the load
\* G2 = M1, S.front = M1, S.back = M2.
C4_Witness ==
    /\ PropagationDone
    /\ mode = "load"
    /\ \E g \in NestedGroups, i \in GroupSurfaces :
         /\ Groups[Groups[g]] = 0
         /\ pre.gmat[Groups[g]] = "M1"
         /\ pre.gmat[g] = Unset
         /\ Surfs[i].owner = GroupOwner(g)
         /\ pre.surfs[i].front = Unset
         /\ pre.surfs[i].back = "M2"
         /\ GMat[g] = "M1"
         /\ Surfs[i].front = "M1"
         /\ Surfs[i].back = "M2"

\* C5: after propagation a nested group's or a group surface's slot that was
\* unset holds the material of the nearest enclosing group that had one, and
\* is still unset only if no group of its chain had one.
C5_NearestAncestorWins ==
    PropagationDone =>
        /\ \A g \in NestedGroups :
             /\ pre.gmat[g] = Unset => GMat[g] = Nearest(Groups[g])
             /\ GMat[g] = Unset => \A a \in Chain(g) : pre.gmat[a] = Unset
        /\ \A i \in GroupSurfaces :
             LET o == Surfs[i].owner.id
             IN /\ pre.surfs[i].front = Unset => Surfs[i].front = Nearest(o)
                /\ pre.surfs[i].back = Unset => Surfs[i].back = Nearest(o)
                /\ (Surfs[i].front = Unset \/ Surfs[i].back = Unset) =>
                      \A a \in Chain(o) : pre.gmat[a] = Unset

\* G (M1) holds G2 (M2) holds S (front unset): S.front = M2, not M1.
C5_Witness ==
    /\ PropagationDone
    /\ \E g \in NestedGroups, i \in GroupSurfaces :
         /\ pre.gmat[Groups[g]] = "M1"
         /\ pre.gmat[g] = "M2"
         /\ Surfs[i].owner = GroupOwner(g)
         /\ pre.surfs[i].front = Unset
         /\ Surfs[i].front = "M2"

\* C6: a second run of the resolver leaves every Parent link as the first
\* run left it, and a second run of the propagator every material slot.
C6_Idempotent ==
    /\ (pc = "idle" /\ mode = "resolve" /\ runs.resolver >= 2) =>
          Parent = pre.parent
    /\ (pc = "idle" /\ mode = "propagate" /\ runs.propagator >= 2) =>
          (GMat = pre.gmat /\ Surfs = pre.surfs)

\* Both passes ran twice on a graph the first runs changed.
C6_Witness ==
    /\ pc = "idle"
    /\ mode = "propagate"
    /\ runs.resolver = 2
    /\ runs.propagator = 2
    /\ GMat # file.gmat
    /\ Surfs # file.surfs
    /\ \E i \in DOMAIN Parent : Parent[i] # Null

\* C7: after a LoadModel call MoreRecentFileVersion is true exactly when the
\* load's status was success-with-newer-version; that load reports success
\* with the graph populated and resolved, and a plain success leaves it false.
C7_NewerVersionFlag ==
    lastOp = "LoadModel" =>
        /\ MoreRecentFileVersion <=> (lastStatus = "MoreRecent")
        /\ (pc = "idle" /\ lastStatus = "MoreRecent") =>
              /\ ret = "true"
              /\ Components = [c \in 1..file.ncomps |-> c]
              /\ Groups = file.gparent
              /\ Insts = file.insts
              /\ Len(Surfs) = Len(file.surfs)
              /\ \A i \in DOMAIN Insts :
                    (Insts[i].owner.kind \in {"model", "comp"} /\ ContainsKey(PidOf(i)))
                        => Parent[i] = Components[PidOf(i)]

\* A second or later call loaded a newer file and resolved its instances.
C7_Witness ==
    /\ Loaded
    /\ calls >= 2
    /\ lastStatus = "MoreRecent"
    /\ MoreRecentFileVersion
    /\ \E i \in DOMAIN Parent : Parent[i] # Null

\* C8: an operation returns true only if every file-library call it depends
\* on succeeded.
C8_FailureReported ==
    (pc = "idle" /\ ret = "true") => ~libFailed

\* C9: when an operation returns, every SUInitialize has been matched by
\* SUTerminate and every model created has been released.
C9_ReleasedOnEveryReturn ==
    (pc = "idle" /\ ret \in {"true", "false"}) => (sessions = 0 /\ handles = 0)

\* C10: a load without inheritGroupMaterials changes no material slot; a load
\* with it changes none of a top-level group itself, of a surface not owned
\* by a group (the model's, a definition's) or of an instance.
C10_OptInConfined ==
    mode = "load" =>
        /\ ~inherit => (GMat = pre.gmat /\ Surfs = pre.surfs)
        /\ \A g \in DOMAIN Groups : Groups[g] = 0 => GMat[g] = pre.gmat[g]
        /\ \A i \in DOMAIN Surfs :
             Surfs[i].owner.kind # "group" => Surfs[i] = pre.surfs[i]
        /\ \A i \in DOMAIN Insts : Insts[i].mat = file.insts[i].mat

\* An inheriting load filled a nested group's slot and a group surface's,
\* and left alone the unset slots of a definition's surface, of a surface of
\* the model and of an instance placed in a group that has a material.
C10_Witness ==
    /\ Loaded
    /\ mode = "load"
    /\ inherit
    /\ \E g \in NestedGroups : GMat[g] # pre.gmat[g]
    /\ \E i \in GroupSurfaces : Surfs[i] # pre.surfs[i]
    /\ \E i \in DOMAIN Surfs : Surfs[i].owner.kind = "comp" /\ Surfs[i].front = Unset
    /\ \E i \in DOMAIN Surfs : Surfs[i].owner.kind = "model" /\ Surfs[i].front = Unset
    /\ \E i \in DOMAIN Insts :
         /\ Insts[i].owner.kind = "group"
         /\ GMat[Insts[i].owner.id] # Unset
         /\ Insts[i].mat = Unset
====
